---- MODULE Spec2Model ----
(***************************************************************************)
(* Model of strava_gear/data.py: the mapping algebra (prune_mapping,       *)
(* update_mappings, filter_mapping), the rule combination Rule.__add__,    *)
(* folding of a rule list, and the Usage accumulator (__iadd__, __add__).  *)
(***************************************************************************)
EXTENDS Integers, Sequences, FiniteSets, TLC

VARIABLES
    m, f, mapOp, mapOut,             \* mapping algebra: input, excluded set, operation, result
    a, b, res,                       \* Rule.__add__: self, other, returned value
    at, n, eff, prev, last,          \* folding: query time, rules folded, effective rule,
                                     \*   effective rule before the last step, last rule folded
    stopped, wf, movedOff,           \* folding: a rule later than `at` was met; every rule
                                     \*   folded mounts a component once; (component, bike)
                                     \*   pairs a rule has unmounted
    deltas, pool,                    \* accumulation: the Usage deltas, and the Usage values
                                     \*   built from them so far, each with the deltas it holds
    usages, dicts,                   \* heap: Usage objects (references to their two dicts)
                                     \*   and the dicts
    before, lastOp, ops              \* heap: the dicts before the last operation, the last
                                     \*   operation, number of in-place additions

mapVars == <<m, f, mapOp, mapOut>>
combineVars == <<a, b, res>>
foldVars == <<at, n, eff, prev, last, stopped, wf, movedOff>>
usageVars == <<deltas, pool>>
heapVars == <<usages, dicts, before, lastOp, ops>>
\* what each part leaves alone
notMap == <<combineVars, foldVars, usageVars, heapVars>>
notCombine == <<mapVars, foldVars, usageVars, heapVars>>
notFold == <<mapVars, combineVars, usageVars, heapVars>>
notUsage == <<mapVars, combineVars, foldVars, heapVars>>
notHeap == <<mapVars, combineVars, foldVars, usageVars>>
vars == <<m, f, mapOp, mapOut, a, b, res, at, n, eff, prev, last, stopped, wf, movedOff,
          deltas, pool, usages, dicts, before, lastOp, ops>>

----------------------------------------------------------------------------
(* Identifiers (data.py:17-22).  None and "" are the two falsy component   *)
(* values a ComponentMap can hold.                                         *)

None == "None"
EmptyStr == ""
ComponentIds == {"compA", "compB"}
Falsy == {None, EmptyStr}
Values == ComponentIds \cup Falsy
Types == {"wheel", "chain"}
Bikes == {"bike1", "bike2"}
Tags == {"tag1", "tag2"}

\* Python truthiness of a component value: `if d`
Truthy(d) == d \notin Falsy

EmptyMap == [x \in {} |-> x]

\* dict restricted to some of its keys
Restrict(d, keys) == [k \in keys |-> d[k]]

\* ComponentMap = Dict[ComponentType, ComponentId] over the given types
ComponentMaps(types) == UNION {[T -> Values] : T \in SUBSET types}

\* Mapping = Dict[T, ComponentMap]
Mappings(keys, types) == UNION {[K -> ComponentMaps(types)] : K \in SUBSET keys}

\* dict.get(k, {})
Get(d, k) == IF k \in DOMAIN d THEN d[k] ELSE EmptyMap

\* {**x, **y}
Merge(x, y) == [c \in DOMAIN x \cup DOMAIN y |-> IF c \in DOMAIN y THEN y[c] ELSE x[c]]

----------------------------------------------------------------------------
(* Mapping algebra, data.py:65-77                                          *)

\* variant: drops falsy leaves but keeps keys whose inner dict became empty
PruneKeepEmpty(mp) ==
    [k \in DOMAIN mp |-> Restrict(mp[k], {c \in DOMAIN mp[k] : Truthy(mp[k][c])})]

\* variant: drops empty inner dicts but keeps falsy leaves
PruneKeepFalsy(mp) ==
    Restrict(mp, {k \in DOMAIN mp : DOMAIN mp[k] # {}})

prune_mapping(mp) ==
    LET inner(k) == Restrict(mp[k], {c \in DOMAIN mp[k] : Truthy(mp[k][c])})
        kept == {k \in DOMAIN mp : DOMAIN inner(k) # {}}
    IN  [k \in kept |-> inner(k)]

update_mappings(m1, m2) ==
    [k \in DOMAIN m1 \cup DOMAIN m2 |-> Merge(Get(m1, k), Get(m2, k))]

\* variant: a key whose inner dict becomes empty is dropped from the result
FilterDropEmptyKeys(mp, excl) ==
    LET inner(k) == Restrict(mp[k], {c \in DOMAIN mp[k] : mp[k][c] \notin excl})
    IN  [k \in {x \in DOMAIN mp : DOMAIN inner(x) # {}} |-> inner(k)]

\* variant: no filtering at all
FilterNothing(mp, excl) == mp

filter_mapping(mp, excl) ==
    [k \in DOMAIN mp |-> Restrict(mp[k], {c \in DOMAIN mp[k] : mp[k][c] \notin excl})]

\* (key, type, id) entries of a mapping
Entries(mp) == UNION {{<<k, c, mp[k][c]>> : c \in DOMAIN mp[k]} : k \in DOMAIN mp}

\* (key, type) slots a mapping fills, with any value
Slots(mp) == UNION {{<<k, c>> : c \in DOMAIN mp[k]} : k \in DOMAIN mp}

\* the value a mapping holds at a slot it fills
At(mp, slot) == mp[slot[1]][slot[2]]

\* {c for m in mp.values() for c in m.values()}
Components(mp) == UNION {{mp[k][c] : c \in DOMAIN mp[k]} : k \in DOMAIN mp}

----------------------------------------------------------------------------
(* Rule and Rule.__add__, data.py:42-62                                    *)

MaxSince == 1
Sinces == 0..MaxSince

\* the sentinel `return NotImplemented`; the + operator then raises TypeError
NotImplemented == [NotImplemented |-> TRUE]

IsRule(r) == "since" \in DOMAIN r

Rule(bikes, hashtags, since) == [bikes |-> bikes, hashtags |-> hashtags, since |-> since]

\* variant: equal timestamps are rejected too
SinceNotAfter(self, other) == other.since <= self.since

\* the ordering guard of __add__: `other.since < self.since`
SinceBefore(self, other) == other.since < self.since

\* variant: hashtags get the reassignment stripping of bikes as well
StripTags(self, other) ==
    LET other_components == Components(other.bikes) \cup Components(other.hashtags)
    IN  prune_mapping(update_mappings(filter_mapping(self.hashtags, other_components),
                                      other.hashtags))

CombineHashtags(self, other) ==
    prune_mapping(update_mappings(self.hashtags, other.hashtags))

CombineBikes(self, other) ==
    LET other_components == Components(other.bikes)
    IN  prune_mapping(update_mappings(filter_mapping(self.bikes, other_components),
                                      other.bikes))

\* variant: replace(self, ...) instead of replace(other, ...)
ReplaceSelf(self, other, bikes, hashtags) ==
    [self EXCEPT !.bikes = bikes, !.hashtags = hashtags]

\* replace(other, bikes=bikes, hashtags=hashtags)
Replace(self, other, bikes, hashtags) ==
    [other EXCEPT !.bikes = bikes, !.hashtags = hashtags]

Rule_add(self, other) ==
    IF SinceBefore(self, other)
    THEN NotImplemented
    ELSE Replace(self, other, CombineBikes(self, other), CombineHashtags(self, other))

----------------------------------------------------------------------------
(* Inputs of the mapping algebra and of a single combination               *)

AllMappings == Mappings(Bikes, Types)

\* mappings over the slots (k1, wheel), (k1, chain), (k2, wheel)
Single(k, cms) == {EmptyMap} \cup {[x \in {k} |-> cm] : cm \in cms}
SlotMappings(k1, k2) ==
    {Merge(x, y) : x \in Single(k1, ComponentMaps(Types)),
                   y \in Single(k2, ComponentMaps({"wheel"}))}

OneWheel(k, c) == [x \in {k} |-> [t \in {"wheel"} |-> c]]

BikeMaps == SlotMappings("bike1", "bike2")
TagMaps == SlotMappings("tag1", "tag2")

----------------------------------------------------------------------------
(* Mapping algebra applied to one input                                    *)

NoRule == [none |-> TRUE]

MapIdle == m = EmptyMap /\ f = {} /\ mapOp = "idle" /\ mapOut = EmptyMap
CombineIdle == a = NotImplemented /\ b = NotImplemented /\ res = [idle |-> TRUE]
FoldIdle ==
    /\ at = 0 /\ n = 0 /\ eff = NoRule /\ prev = NoRule /\ last = NoRule
    /\ stopped = FALSE /\ wf = TRUE /\ movedOff = {}
UsageIdle == deltas = << >> /\ pool = {}
HeapIdle == usages = << >> /\ dicts = << >> /\ before = << >> /\ lastOp = [op |-> "idle"] /\ ops = 0

InitMap ==
    /\ m \in AllMappings
    /\ f \in SUBSET Values
    /\ mapOp = "none"
    /\ mapOut = EmptyMap
    /\ CombineIdle /\ FoldIdle /\ UsageIdle /\ HeapIdle

Prune ==
    /\ mapOp = "none"
    /\ mapOp' = "prune"
    /\ mapOut' = prune_mapping(m)
    /\ UNCHANGED <<m, f, notMap>>

Filter ==
    /\ mapOp = "none"
    /\ mapOp' = "filter"
    /\ mapOut' = filter_mapping(m, f)
    /\ UNCHANGED <<m, f, notMap>>

NextMap == Prune \/ Filter

SpecMap == InitMap /\ [][NextMap]_vars

----------------------------------------------------------------------------
(* One combination self + other                                            *)

Pending == [pending |-> TRUE]

\* every pair of bikes mappings beside fixed hashtags, or every pair of hashtags
\* mappings beside fixed bikes, at every pair of timestamps
InitCombine ==
    /\ \E sa \in Sinces, sb \in Sinces :
          \/ \E ab \in BikeMaps, bb \in BikeMaps :
                /\ a = Rule(ab, OneWheel("tag1", "compA"), sa)
                /\ b = Rule(bb, EmptyMap, sb)
          \/ \E ah \in TagMaps, bh \in TagMaps :
                /\ a = Rule(OneWheel("bike1", "compB"), ah, sa)
                /\ b = Rule(OneWheel("bike2", "compA"), bh, sb)
    /\ res = Pending
    /\ MapIdle /\ FoldIdle /\ UsageIdle /\ HeapIdle

Combine ==
    /\ res = Pending
    /\ res' = Rule_add(a, b)
    /\ UNCHANGED <<a, b, notCombine>>

NextCombine == Combine

SpecCombine == InitCombine /\ [][NextCombine]_vars

----------------------------------------------------------------------------
(* Folding a rule list sorted by since, up to the query time `at`: the      *)
(* rules with since <= at are combined left to right with +, the first     *)
(* rule with since > at ends the prefix.                                   *)

MaxRules == 3

\* rules of the folded list: any wheel assignment of the two bikes, no hashtags
FoldMaps == Mappings(Bikes, {"wheel"})
FoldRules == {Rule(bm, EmptyMap, s) : bm \in FoldMaps, s \in Sinces}

\* the component values a mapping holds on one key
OnKey(mp, k) == IF k \in DOMAIN mp THEN {mp[k][c] : c \in DOMAIN mp[k]} ELSE {}

BikesOf(r) == IF IsRule(r) THEN r.bikes ELSE EmptyMap

\* each truthy component id sits in at most one (key, type) slot
SingleMount(mp) ==
    \A s1 \in Slots(mp), s2 \in Slots(mp) :
        (Truthy(At(mp, s1)) /\ At(mp, s1) = At(mp, s2)) => s1 = s2

\* (component, bike) pairs unmounted so far and not mounted again
MovedOff(old, new, moved) ==
    {p \in moved \cup {<<c, k>> \in ComponentIds \X Bikes : c \in OnKey(old, k)} :
        p[1] \notin OnKey(new, p[2])}

InitFold ==
    /\ at \in Sinces
    /\ n = 0 /\ eff = NoRule /\ prev = NoRule /\ last = NoRule
    /\ stopped = FALSE /\ wf = TRUE /\ movedOff = {}
    /\ MapIdle /\ CombineIdle /\ UsageIdle /\ HeapIdle

\* the next rule of the list is in the prefix: eff = eff + r (the first rule as it is)
Apply(r) ==
    /\ ~stopped
    /\ n < MaxRules
    /\ IsRule(eff) \/ n = 0
    /\ n > 0 => r.since >= last.since
    /\ r.since <= at
    /\ n' = n + 1
    /\ prev' = eff
    /\ last' = r
    /\ eff' = IF n = 0 THEN r ELSE Rule_add(eff, r)
    /\ wf' = (wf /\ SingleMount(r.bikes))
    /\ movedOff' = MovedOff(BikesOf(eff), BikesOf(eff'), movedOff)
    /\ UNCHANGED <<at, stopped, notFold>>

\* the next rule of the list is later than `at`: the prefix ends here
Skip(r) ==
    /\ ~stopped
    /\ n > 0 => r.since >= last.since
    /\ r.since > at
    /\ stopped' = TRUE
    /\ UNCHANGED <<at, n, eff, prev, last, wf, movedOff, notFold>>

NextFold ==
    \/ \E r \in FoldRules : Apply(r)
    \/ \E r \in FoldRules : Skip(r)

SpecFold == InitFold /\ [][NextFold]_vars

----------------------------------------------------------------------------
(* Usage, data.py:87-108                                                   *)

Usage(distances, times) == [distances |-> distances, times |-> times]

\* Usage.from_activity: every listed component gets the whole distance and time
from_activity(components, distance, time) ==
    Usage([c \in components |-> distance], [c \in components |-> time])

\* variant: `self[k] = v`, the value already held is forgotten
DictOverwrite(self, other) ==
    [k \in DOMAIN self \cup DOMAIN other |-> IF k \in DOMAIN other THEN other[k] ELSE self[k]]

\* for k, v in other.items(): self[k] = self.get(k, 0) + v
DictAdd(self, other) ==
    [k \in DOMAIN self \cup DOMAIN other |->
        IF k \in DOMAIN other
        THEN (IF k \in DOMAIN self THEN self[k] ELSE 0) + other[k]
        ELSE self[k]]

\* the value of self after self += other
Usage_iadd(self, other) ==
    Usage(DictAdd(self.distances, other.distances), DictAdd(self.times, other.times))

\* the value self + other returns
Usage_add(self, other) ==
    LET self_copy == Usage(self.distances, self.times)
    IN  Usage_iadd(self_copy, other)

----------------------------------------------------------------------------
(* Accumulating a list of Usage deltas in any order and grouping           *)

MaxDeltas == 3
MaxDistance == 1
ActivityTime == 5

\* one Usage per activity: any set of mounted components, a distance, a time
UsageInputs ==
    {from_activity(cs, d, ActivityTime) : cs \in SUBSET ComponentIds, d \in 0..MaxDistance}

Term(ids, u) == [ids |-> ids, u |-> u]

\* the deltas, each a value of its own, and an empty Usage() to accumulate into
InitUsage ==
    /\ \E len \in 1..MaxDeltas : deltas \in [1..len -> UsageInputs]
    /\ pool = {Term({i}, deltas[i]) : i \in DOMAIN deltas} \cup {Term({}, from_activity({}, 0, 0))}
    /\ MapIdle /\ CombineIdle /\ FoldIdle /\ HeapIdle

\* x += y
Accumulate(x, y) ==
    /\ x # y
    /\ pool' = (pool \ {x, y}) \cup {Term(x.ids \cup y.ids, Usage_iadd(x.u, y.u))}
    /\ UNCHANGED <<deltas, notUsage>>

\* x + y
Plus(x, y) ==
    /\ x # y
    /\ pool' = (pool \ {x, y}) \cup {Term(x.ids \cup y.ids, Usage_add(x.u, y.u))}
    /\ UNCHANGED <<deltas, notUsage>>

NextUsage ==
    \/ \E x \in pool, y \in pool : Accumulate(x, y)
    \/ \E x \in pool, y \in pool : Plus(x, y)

SpecUsage == InitUsage /\ [][NextUsage]_vars

----------------------------------------------------------------------------
(* Usage objects on the heap: a Usage holds references to its two dicts,   *)
(* += writes through self's references, + builds a new object.             *)

MaxObjs == 3
MaxOps == 2

Objs == DOMAIN usages

\* variant: replace(self) without copying the dicts, the copy shares them
ShareDicts(self, rd, rt) == self

\* replace(self, distances=self.distances.copy(), times=self.times.copy()),
\* the copies at the new references rd and rt
CopyDicts(self, rd, rt) == [d |-> rd, t |-> rt]

\* the dicts after `self += other`: the distances loop, then the times loop
IaddDicts(ds, self, other) ==
    LET d1 == [ds EXCEPT ![self.d] = DictAdd(ds[self.d], ds[other.d])]
    IN  [d1 EXCEPT ![self.t] = DictAdd(d1[self.t], d1[other.t])]

\* the value of an object in a heap of dicts
ValueIn(ds, u) == Usage(ds[u.d], ds[u.t])

InitHeap ==
    /\ usages = << >> /\ dicts = << >> /\ before = << >>
    /\ lastOp = [op |-> "none"] /\ ops = 0
    /\ MapIdle /\ CombineIdle /\ FoldIdle /\ UsageIdle

\* Usage.from_activity(components, distance, time): a new object with two new dicts
FromActivity(components, distance, time) ==
    /\ Len(usages) < MaxObjs
    /\ LET u == from_activity(components, distance, time)
           rd == Len(dicts) + 1
           rt == Len(dicts) + 2
       IN  /\ dicts' = dicts \o <<u.distances, u.times>>
           /\ usages' = Append(usages, [d |-> rd, t |-> rt])
    /\ before' = dicts
    /\ lastOp' = [op |-> "from_activity", result |-> Len(usages) + 1]
    /\ UNCHANGED <<ops, notHeap>>

\* x += y (x and y may be the same object)
Iadd(x, y) ==
    /\ ops < MaxOps
    /\ dicts' = IaddDicts(dicts, usages[x], usages[y])
    /\ before' = dicts
    /\ lastOp' = [op |-> "iadd", self |-> x, other |-> y, result |-> x]
    /\ ops' = ops + 1
    /\ UNCHANGED <<usages, notHeap>>

\* z = x + y
Add(x, y) ==
    /\ Len(usages) < MaxObjs
    /\ LET self == usages[x]
           rd == Len(dicts) + 1
           rt == Len(dicts) + 2
           copied == dicts \o <<dicts[self.d], dicts[self.t]>>
           self_copy == CopyDicts(self, rd, rt)
       IN  /\ dicts' = IaddDicts(copied, self_copy, usages[y])
           /\ usages' = Append(usages, self_copy)
    /\ before' = dicts
    /\ lastOp' = [op |-> "add", self |-> x, other |-> y, result |-> Len(usages) + 1]
    /\ UNCHANGED <<ops, notHeap>>

NextHeap ==
    \/ \E cs \in SUBSET ComponentIds : FromActivity(cs, MaxDistance, ActivityTime)
    \/ \E x \in Objs, y \in Objs : Iadd(x, y)
    \/ \E x \in Objs, y \in Objs : Add(x, y)

SpecHeap == InitHeap /\ [][NextHeap]_vars

----------------------------------------------------------------------------
(* Properties of the mapping algebra (SpecMap)                             *)

TruthyEntries(mp) == {e \in Entries(mp) : Truthy(e[3])}
FalsyEntries(mp) == {e \in Entries(mp) : ~Truthy(e[3])}
NoEmptyInner(mp) == \A k \in DOMAIN mp : DOMAIN mp[k] # {}
NoFalsyLeaf(mp) == FalsyEntries(mp) = {}

\* C9: prune_mapping(m) never has a key with an empty inner map, never has an
\* entry with a falsy value, and keeps every entry of m whose id is truthy.
C9_PruneClean ==
    mapOp = "prune" =>
        /\ NoEmptyInner(mapOut)
        /\ NoFalsyLeaf(mapOut)
        /\ TruthyEntries(m) \subseteq Entries(mapOut)

\* a pruned mapping that had an empty inner map, a falsy leaf and a truthy leaf
C9_Witness ==
    /\ mapOp = "prune"
    /\ \E k \in DOMAIN m : DOMAIN m[k] = {}
    /\ FalsyEntries(m) # {}
    /\ TruthyEntries(m) # {}
    /\ mapOut # m

\* C8 as stated: filter_mapping(m, excluded) keeps the key set of m, leaves no
\* value that is in excluded, keeps every entry whose value is not in excluded,
\* and leaves every entry with a falsy value untouched.
C8_FilterAsStated ==
    mapOp = "filter" =>
        /\ DOMAIN mapOut = DOMAIN m
        /\ \A e \in Entries(mapOut) : e[3] \notin f
        /\ {e \in Entries(m) : e[3] \notin f} \subseteq Entries(mapOut)
        /\ FalsyEntries(m) \subseteq Entries(mapOut)

\* C8 amended: as above, but an entry with a falsy value is untouched only when
\* that falsy value is not itself in excluded; the result's entries are exactly
\* the entries of m whose value is not in excluded.
C8_FilterAmended ==
    mapOp = "filter" =>
        /\ DOMAIN mapOut = DOMAIN m
        /\ \A e \in Entries(mapOut) : e[3] \notin f
        /\ {e \in Entries(m) : e[3] \notin f} \subseteq Entries(mapOut)
        /\ {e \in FalsyEntries(m) : e[3] \notin f} \subseteq Entries(mapOut)
        /\ (f \cap Falsy = {} => FalsyEntries(m) \subseteq Entries(mapOut))

\* filtering emptied an inner map whose key is kept, and a falsy entry survived
C8_Witness ==
    /\ mapOp = "filter"
    /\ \E k \in DOMAIN m : DOMAIN m[k] # {} /\ k \in DOMAIN mapOut /\ DOMAIN mapOut[k] = {}
    /\ FalsyEntries(mapOut) # {}

----------------------------------------------------------------------------
(* Properties of one combination (SpecCombine)                             *)

C2_ReassignmentStripping ==
    IsRule(res) =>
        /\ \A c \in Components(b.bikes) :
              \A s \in Slots(res.bikes) \ Slots(b.bikes) : At(res.bikes, s) # c
        /\ \A k \in DOMAIN a.bikes \ DOMAIN b.bikes :
              (\A t \in DOMAIN a.bikes[k] : a.bikes[k][t] \in Components(b.bikes))
                  => k \notin DOMAIN res.bikes
        /\ (a.bikes = OneWheel("bike1", "compA") /\ b.bikes = OneWheel("bike2", "compA")
                => res.bikes = OneWheel("bike2", "compA"))

\* the wheel compA moved from bike1 to bike2 by a rule that never mentions bike1
C2_Witness ==
    /\ IsRule(res)
    /\ a.bikes = OneWheel("bike1", "compA")
    /\ b.bikes = OneWheel("bike2", "compA")
    /\ res.bikes = OneWheel("bike2", "compA")

\* C3: the combined hashtags are other's truthy entries plus self's truthy
\* entries at the slots other does not fill: an entry of self is kept even when
\* other places the same component under another hashtag or on a bike.
C3_TagsNotExclusive ==
    IsRule(res) =>
        /\ Entries(res.hashtags) =
              TruthyEntries(b.hashtags) \cup
              {e \in TruthyEntries(a.hashtags) : <<e[1], e[2]>> \notin Slots(b.hashtags)}
        /\ NoEmptyInner(res.hashtags)
        /\ (a.hashtags = OneWheel("tag1", "compA") /\ b.hashtags = OneWheel("tag2", "compA")
                => res.hashtags = Merge(OneWheel("tag1", "compA"), OneWheel("tag2", "compA")))

\* compA under tag1 in self, under tag2 and on bike2 in other: both tags hold it
C3_Witness ==
    /\ IsRule(res)
    /\ a.hashtags = OneWheel("tag1", "compA")
    /\ b.hashtags = OneWheel("tag2", "compA")
    /\ "compA" \in Components(b.bikes)
    /\ <<"tag1", "wheel", "compA">> \in Entries(res.hashtags)
    /\ <<"tag2", "wheel", "compA">> \in Entries(res.hashtags)

\* C7: a falsy value of other at a slot leaves no entry at that slot of the
\* combination, whatever self held there, in bikes and in hashtags; a combined
\* rule holds no falsy value and no empty inner map.
C7_RemovalMarker ==
    IsRule(res) =>
        /\ \A s \in Slots(b.bikes) : ~Truthy(At(b.bikes, s)) => s \notin Slots(res.bikes)
        /\ \A s \in Slots(b.hashtags) :
              ~Truthy(At(b.hashtags, s)) => s \notin Slots(res.hashtags)
        /\ NoFalsyLeaf(res.bikes) /\ NoEmptyInner(res.bikes)
        /\ NoFalsyLeaf(res.hashtags) /\ NoEmptyInner(res.hashtags)

\* other unmounts with a marker a slot where self held a component
C7_Witness ==
    /\ IsRule(res)
    /\ \E s \in Slots(b.bikes) \cap Slots(a.bikes) :
          /\ ~Truthy(At(b.bikes, s))
          /\ Truthy(At(a.bikes, s))
          /\ s \notin Slots(res.bikes)

----------------------------------------------------------------------------
(* Properties of folding (SpecFold)                                        *)

\* C4: folding the rules with since <= at of a list sorted by since gives a
\* Rule whose since is that of the last rule of the prefix; with
\* R0 = {bike1: {wheel: compA}} at 0 and R1 = {bike2: {wheel: compA}} at 1 the
\* effective bikes are R0's for 0 <= at < 1 and {bike2: {wheel: compA}} for at >= 1.
C4_PrefixFold ==
    n > 0 =>
        /\ IsRule(eff)
        /\ eff.since = last.since
        /\ eff.since <= at
        /\ (n = 1 /\ last = Rule(OneWheel("bike1", "compA"), EmptyMap, 0)
                => eff.bikes = OneWheel("bike1", "compA"))
        /\ ((n = 2 /\ prev = Rule(OneWheel("bike1", "compA"), EmptyMap, 0)
                   /\ last = Rule(OneWheel("bike2", "compA"), EmptyMap, 1))
                => (at >= 1 /\ eff.bikes = OneWheel("bike2", "compA")))

\* R0 then R1 folded at a time not before R1's since
C4_Witness ==
    /\ n = 2
    /\ prev = Rule(OneWheel("bike1", "compA"), EmptyMap, 0)
    /\ last = Rule(OneWheel("bike2", "compA"), EmptyMap, 1)
    /\ eff = Rule(OneWheel("bike2", "compA"), EmptyMap, 1)

\* C10: when every rule folded so far mounts each component id in at most one
\* slot, so does every fold result; and a component a rule moved off a bike is
\* on that bike again after a step only if the rule folded in that step puts it there.
C10_SingleMounted == (wf /\ n > 0) => SingleMount(eff.bikes)

C10_NoReappear ==
    \A p \in movedOff :
        p[1] \in OnKey(BikesOf(eff'), p[2]) => p[1] \in OnKey(BikesOf(last'), p[2])

C10_NoDoubleMount == []C10_SingleMounted /\ [][C10_NoReappear]_vars

\* compA was moved off bike1 and, two rules later, sits on exactly one other slot
C10_Witness ==
    /\ wf /\ n = 3
    /\ <<"compA", "bike1">> \in movedOff
    /\ "compA" \notin Components(last.bikes)
    /\ "compA" \in OnKey(eff.bikes, "bike2")
    /\ "compA" \notin OnKey(eff.bikes, "bike1")

----------------------------------------------------------------------------
(* Properties of accumulation (SpecUsage)                                  *)

RECURSIVE SumOver(_, _, _)
\* the sum over the deltas in ids of the value dict(deltas[i]) holds for key k
SumOver(ids, k, field) ==
    IF ids = {} THEN 0
    ELSE LET i == CHOOSE j \in ids : TRUE
             d == deltas[i][field]
         IN  (IF k \in DOMAIN d THEN d[k] ELSE 0) + SumOver(ids \ {i}, k, field)

KeysOver(ids, field) == UNION {DOMAIN deltas[i][field] : i \in ids}

Total(ids) ==
    Usage([k \in KeysOver(ids, "distances") |-> SumOver(ids, k, "distances")],
          [k \in KeysOver(ids, "times") |-> SumOver(ids, k, "times")])

\* C5: whatever the order and the grouping, with += or with +, a Usage built
\* from a set of the deltas holds for each component id the sum of that id's
\* values over those deltas, and no id that none of them has.
C5_OrderIndependent == \A x \in pool : x.u = Total(x.ids)

\* all of three deltas accumulated, two of them sharing a component, one id in none
C5_Witness ==
    /\ Len(deltas) = 3
    /\ \E x \in pool :
          /\ x.ids = {1, 2, 3}
          /\ DOMAIN x.u.distances = {"compA"}
          /\ x.u.distances["compA"] = 2 * MaxDistance
          /\ x.u.times["compA"] = 2 * ActivityTime
          /\ DOMAIN deltas[3].distances = {}
----------------------------------------------------------------------------
(* Properties of the heap of Usage objects (SpecHeap)                      *)

RefsOf(x) == {usages[x].d, usages[x].t}
SameDicts(refs) == \A r \in refs : dicts[r] = before[r]

\* after x += y only x's two dicts may differ from before
IaddFrame == lastOp.op = "iadd" => SameDicts(DOMAIN before \ RefsOf(lastOp.self))

\* after z = x + y every dict that existed is as before, z's dicts are its own,
\* and z equals what a copy of x would be after += y
AddFrame ==
    lastOp.op = "add" =>
        /\ SameDicts(DOMAIN before)
        /\ RefsOf(lastOp.result) \cap DOMAIN before = {}
        /\ \A o \in Objs \ {lastOp.result} : RefsOf(o) \cap RefsOf(lastOp.result) = {}
        /\ ValueIn(dicts, usages[lastOp.result]) =
              Usage_iadd(ValueIn(before, usages[lastOp.self]),
                         ValueIn(before, usages[lastOp.other]))

\* C6 as stated: acc += other changes only acc's dicts and leaves other's dicts
\* unchanged; a + b returns a new Usage equal to a copy of a after += b and
\* leaves a's and b's dicts unchanged.
C6_FootprintAsStated ==
    /\ IaddFrame
    /\ (lastOp.op = "iadd" => SameDicts(RefsOf(lastOp.other)))
    /\ AddFrame

\* C6 amended: acc += other leaves other's dicts unchanged when other is another
\* object than acc; acc += acc adds every value of acc to itself. The rest as stated.
C6_FootprintAmended ==
    /\ IaddFrame
    /\ (lastOp.op = "iadd" /\ lastOp.other # lastOp.self => SameDicts(RefsOf(lastOp.other)))
    /\ (lastOp.op = "iadd" /\ lastOp.other = lastOp.self =>
            \A r \in RefsOf(lastOp.self) :
                dicts[r] = [k \in DOMAIN before[r] |-> 2 * before[r][k]])
    /\ AddFrame

\* a sum z = x + y was later added to in place: x and y still hold their values
C6_Witness ==
    /\ lastOp.op = "iadd"
    /\ lastOp.self = 3 /\ lastOp.other = 2
    /\ Len(usages) = 3
    /\ usages[3].d = 5
    /\ dicts[1] # << >> /\ dicts[3] # << >>
    /\ dicts[5] # before[5]
    /\ dicts[1] = before[1] /\ dicts[3] = before[3]
====
